---------------------------- MODULE Spec2Model ----------------------------
(***************************************************************************)
(* State-machine model of the MarketX escrow contract                      *)
(* (src/contracts/marketx/src/lib.rs, types.rs, errors.rs).                *)
(*                                                                         *)
(* One action per contract entry point.  What an invocation returns is an  *)
(* operator of the state and of the arguments (..._result, ..._call):      *)
(* "Ok", the name of a ContractError, or "Trap" for a panic (failed        *)
(* require_auth, failed token transfer, unwrap of a missing key, overflow).*)
(* An invocation that returns Err or traps is rolled back by the host and  *)
(* changes nothing: it is a stuttering step, and an action is enabled      *)
(* exactly when its invocation returns Ok.                                 *)
(***************************************************************************)
EXTENDS Integers, Sequences, FiniteSets, TLC

\* ------------------------------------------------------------------ bounds
MaxEscrowId == 1
MaxStores == 2
MaxRefunds == 1
MaxLedger == 2
MaxEscrowsDeep == 2
MaxRefundsDeep == 3

\* ------------------------------------------------------- program constants
BPS_DENOMINATOR == 10000
MAX_INIT_FEE_BPS == 10000
MAX_SET_FEE_BPS == 1000
REFUND_WINDOW == 20160

\* ------------------------------------------------------------- identities
Buyer == "buyer"
Seller == "seller"
Arbiter == "arbiter"
Admin == "admin"
Collector == "collector"
Other == "other"
ContractAddr == "contract"
None == "none"

\* Who may have authorized an invocation (one signer per invocation).
Signers == {Buyer, Seller, Arbiter, Admin, Other}
\* Accounts of the escrowed token.
Holders == {Buyer, Seller, Collector, ContractAddr}

\* The escrow ids and refund ids a run can use: the id spaces (u64) are cut
\* down to the finite ranges laid out by the initial state.
EscrowIdRange(n) == 1..n
RefundIdRange(n) == 1..n

\* ---------------------------------------------------------------- types.rs
Pending == "Pending"
Released == "Released"
Refunded == "Refunded"
Disputed == "Disputed"
EscrowStatus == {Pending, Released, Refunded, Disputed}

RefundStatus == {"Pending", "Approved", "Rejected", "Completed", "Cancelled"}

can_transition_to(self, next) ==
    <<self, next>> \in { <<Pending, Released>>, <<Pending, Disputed>>,
                         <<Pending, Refunded>>, <<Disputed, Released>>,
                         <<Disputed, Refunded>> }

NoEscrow == [status |-> None]
NoRequest == [status |-> None]

\* ------------------------------------------------------------ input choices
InitBuyerBalance == 20000000
InitLedger == 1
RefundAmountChoices == {0, 4000000, 10000000, 12000000}
InitFeeChoices == {250, 10001}
SetFeeChoices == {0, 1001}
AdminChoices == {Admin}

\* The records store_escrow is called with.
Escrow(amount, status, refund_deadline, allow_partial_refund) ==
    [buyer |-> Buyer, seller |-> Seller, arbiter |-> Arbiter, token |-> "token",
     amount |-> amount, status |-> status, refund_deadline |-> refund_deadline,
     allow_partial_refund |-> allow_partial_refund]

EscrowChoices ==
    { Escrow(0, Pending, 0, FALSE),
      Escrow(10000000, Pending, 0, FALSE),
      Escrow(9900000, Pending, 0, FALSE),
      Escrow(10000000, Pending, 0, TRUE),
      Escrow(10000000, Pending, 1, TRUE),
      Escrow(10000000, Released, 0, FALSE) }

VARIABLES
    escrows,         \* DataKey::Escrow(id)        -> Escrow | NoEscrow
    escrow_ids,      \* DataKey::EscrowIds         (sequence of ids)
    admin,           \* DataKey::Admin             (None when unset)
    fee_collector,   \* DataKey::FeeCollector      (None when unset)
    fee_bps,         \* DataKey::FeeBps            (<<>> when unset, else <<bps>>)
    refund_requests, \* DataKey::RefundRequest(id) -> RefundRequest | NoRequest
    refund_count,    \* DataKey::RefundCount
    escrow_refunds,  \* DataKey::EscrowRefunds(id)
    refund_history,  \* DataKey::RefundHistory(id)
    global_history,  \* DataKey::GlobalRefundHistory
    balances,        \* the token's ledger: holder -> balance
    ledger,          \* env.ledger().sequence()
    funded,          \* per escrow id: value moved in by fund_escrow
    released,        \* per escrow id: value moved to seller and fee collector
    refunded,        \* per escrow id: value moved back to the buyer
    last             \* the last invocation that returned Ok

storage == <<escrows, escrow_ids, admin, fee_collector, fee_bps, refund_requests,
             refund_count, escrow_refunds, refund_history, global_history>>
accounting == <<funded, released, refunded>>
vars == <<storage, balances, ledger, accounting, last>>

EscrowIdSet == DOMAIN escrows
RefundIdSet == DOMAIN refund_requests

\* ----------------------------------------------------------- the last call
\* The last invocation that returned Ok: the entry point, the escrow or
\* refund id it was given (0 when it takes none) and the token transfers it
\* made; `nested` lists what the invocations made back into the contract
\* during the call returned (none for a plain token).
\* `env.events().publish(...)`: the events a successful invocation of `op`
\* publishes, each with its topic symbol and the id that accompanies it in
\* the topics (none for fee_chg).  The entry points not listed publish none.
published(op, id) ==
    CASE op = "store_escrow" -> << [topic |-> "escrow_cr", id |-> <<id>>] >>
      [] op = "set_fee_percentage" -> << [topic |-> "fee_chg", id |-> <<>>] >>
      [] op = "submit_refund_request" -> << [topic |-> "refund_req", id |-> <<id>>] >>
      [] op = "approve_refund_request" -> << [topic |-> "refund_appr", id |-> <<id>>] >>
      [] op = "reject_refund_request" -> << [topic |-> "refund_rej", id |-> <<id>>] >>
      [] op = "process_refund" -> << [topic |-> "refund_done", id |-> <<id>>] >>
      [] op = "cancel_refund_request" -> << [topic |-> "refund_canc", id |-> <<id>>] >>
      [] OTHER -> <<>>

Call(op, id, transfers) ==
    [op |-> op, id |-> id, transfers |-> transfers, nested |-> <<>>,
     events |-> published(op, id)]

NoCall == Call("none", 0, <<>>)

\* ------------------------------------------------------------ token ledger
\* token::Client::transfer: traps on a negative amount or an insufficient
\* balance, otherwise moves amt from one holder to the other.
Transfer(bal, from, to, amt) ==
    IF amt < 0 \/ bal[from] < amt
    THEN [ok |-> FALSE, bal |-> bal]
    ELSE [ok |-> TRUE, bal |-> [bal EXCEPT ![from] = @ - amt, ![to] = @ + amt]]

\* ------------------------------------------------------------ i128 product
\* The signed integer type of `amount` is modelled with 41 bits instead of
\* 128.  Numbers that may exceed TLC's native integers are pairs
\* <<hi, lo>> standing for hi * 10000 + lo, with 0 <= lo < 10000.
INT_MODULUS == <<219902325, 5552>>    \* 2^41
INT_LIMIT == <<109951162, 7776>>      \* 2^40, the first value out of range

GeL(x, y) == x[1] > y[1] \/ (x[1] = y[1] /\ x[2] >= y[2])

SubL(x, y) ==
    IF x[2] >= y[2] THEN <<x[1] - y[1], x[2] - y[2]>>
                    ELSE <<x[1] - y[1] - 1, x[2] + 10000 - y[2]>>

\* The exact product a * b (a >= 0, 0 <= b <= 10001) as a pair.
ProductL(a, b) ==
    LET low == (a % 10000) * b
    IN  <<(a \div 10000) * b + low \div 10000, low % 10000>>

RECURSIVE WrapL(_)
WrapL(x) == IF GeL(x, INT_MODULUS) THEN WrapL(SubL(x, INT_MODULUS)) ELSE x

\* The wrapped (two's complement) product divided by 10000, truncating
\* toward zero as Rust's `/` does.
WrappedQuotient(p) ==
    LET w == WrapL(p)
    IN  IF GeL(w, INT_LIMIT) THEN 0 - SubL(INT_MODULUS, w)[1] ELSE w[1]

\* `escrow.amount * fee_bps as i128 / 10_000`: the outcomes the build can
\* produce.  Without overflow there is one; on overflow of the product the
\* call panics (overflow checks on) or continues with the wrapped product.
fee_amount(amount, bps) ==
    LET p == ProductL(amount, bps)
    IN  IF GeL(p, INT_LIMIT)
        THEN {[trap |-> TRUE, fee |-> 0], [trap |-> FALSE, fee |-> WrappedQuotient(p)]}
        ELSE {[trap |-> FALSE, fee |-> p[1]]}

\* --------------------------------------------------------------- outcomes
Err(w, e) == [result |-> e, w |-> w, transfers |-> <<>>, nested |-> <<>>]
Trap(w) == [result |-> "Trap", w |-> w, transfers |-> <<>>, nested |-> <<>>]
Done(w, transfers) ==
    [result |-> "Ok", w |-> w, transfers |-> transfers, nested |-> <<>>]

Rollback_KeepPartial(w_start, w_now) == w_now

\* A panic inside the invocation (here a token transfer that fails) aborts
\* it: the host discards what the invocation has written and moved so far.
Rollback(w_start, w_now) == w_start

\* The part of the state a fund-moving entry point reads and writes.
World == [escrows |-> escrows, balances |-> balances, funded |-> funded,
          released |-> released, refunded |-> refunded]

get_fee_bps == IF fee_bps = <<>> THEN 0 ELSE fee_bps[1]

\* ------------------------------------------------------------------- Init
Init ==
    /\ escrows = [i \in EscrowIdRange(MaxEscrowId) |-> NoEscrow]
    /\ escrow_ids = <<>>
    /\ admin = None
    /\ fee_collector = None
    /\ fee_bps = <<>>
    /\ refund_requests = [r \in RefundIdRange(MaxRefunds) |-> NoRequest]
    /\ refund_count = 0
    /\ escrow_refunds = [i \in EscrowIdRange(MaxEscrowId) |-> <<>>]
    /\ refund_history = [i \in EscrowIdRange(MaxEscrowId) |-> <<>>]
    /\ global_history = <<>>
    /\ balances = [h \in Holders |-> IF h = Buyer THEN InitBuyerBalance ELSE 0]
    /\ ledger = InitLedger
    /\ funded = [i \in EscrowIdRange(MaxEscrowId) |-> 0]
    /\ released = [i \in EscrowIdRange(MaxEscrowId) |-> 0]
    /\ refunded = [i \in EscrowIdRange(MaxEscrowId) |-> 0]
    /\ last = NoCall

\* ------------------------------------------------------------- initialize
initialize_fee_ok_Unbounded(bps) == TRUE

\* `if fee_bps > 10_000` in initialize
initialize_fee_ok(bps) == bps <= MAX_INIT_FEE_BPS

initialize_result(signer, bps) ==
    IF ~initialize_fee_ok(bps) THEN "InvalidFeeConfig"
    ELSE IF admin # None /\ signer # admin THEN "Trap"
    ELSE "Ok"

initialize ==
    \E signer \in Signers, a \in AdminChoices, bps \in InitFeeChoices :
        /\ initialize_result(signer, bps) = "Ok"
        /\ admin' = IF admin # None THEN admin ELSE a
        /\ fee_collector' = Collector
        /\ fee_bps' = <<bps>>
        /\ last' = Call("initialize", 0, <<>>)
        /\ UNCHANGED <<escrows, escrow_ids, refund_requests, refund_count,
                       escrow_refunds, refund_history, global_history,
                       balances, ledger, accounting>>

\* ----------------------------------------------------------- store_escrow
store_escrow_amount_ok_AllowZero(e) == e.amount >= 0

\* `if escrow.amount <= 0` in store_escrow
store_escrow_amount_ok(e) == e.amount > 0

store_escrow_result(e) ==
    IF ~store_escrow_amount_ok(e) THEN "InvalidEscrowAmount" ELSE "Ok"

store_escrow ==
    \E id \in EscrowIdSet, e \in EscrowChoices :
        /\ store_escrow_result(e) = "Ok"
        /\ Len(escrow_ids) < MaxStores
        /\ escrows' = [escrows EXCEPT ![id] = e]
        /\ escrow_ids' = Append(escrow_ids, id)
        \* the accounts of value moved are those of the record now stored
        \* under the id
        /\ funded' = [funded EXCEPT ![id] = 0]
        /\ released' = [released EXCEPT ![id] = 0]
        /\ refunded' = [refunded EXCEPT ![id] = 0]
        /\ last' = Call("store_escrow", id, <<>>)
        /\ UNCHANGED <<admin, fee_collector, fee_bps, refund_requests, refund_count,
                       escrow_refunds, refund_history, global_history,
                       balances, ledger>>

\* ----------------------------------------------- get / try_get an escrow
escrow_missing_Never(e) == FALSE

\* `.get(&DataKey::Escrow(escrow_id)).ok_or(ContractError::EscrowNotFound)?`,
\* the first statement of every entry point that takes an escrow id
escrow_missing(e) == e = NoEscrow

try_get_escrow(id) ==
    IF escrow_missing(escrows[id])
    THEN [result |-> "EscrowNotFound", escrow |-> NoEscrow]
    ELSE [result |-> "Ok", escrow |-> escrows[id]]

\* --------------------------------------------------------- get_escrow_ids
\* A u32 as two 16-bit halves <<high, low>>, so that sums beyond 2^32 - 1
\* are computed at the width of the program's type.
U32_HALF == 65536

ToU32(n) == <<n \div U32_HALF, n % U32_HALF>>

U32Ge(a, b) == a[1] > b[1] \/ (a[1] = b[1] /\ a[2] >= b[2])

\* `start + limit` in u32: the sum modulo 2^32 and whether it overflowed.
U32Add(a, b) ==
    LET low == a[2] + b[2]
        high == a[1] + b[1] + (low \div U32_HALF)
    IN  [overflow |-> high >= U32_HALF,
         value |-> <<high % U32_HALF, low % U32_HALF>>]

\* `(start + limit).min(total_count)` and the loop over start..end
get_escrow_ids_slice(start, sum) ==
    LET total == Len(escrow_ids)
        end == IF U32Ge(sum, ToU32(total)) THEN total ELSE sum[2]
    IN  SubSeq(escrow_ids, start[2] + 1, end)

\* The outcomes the build can produce: on overflow of `start + limit` the
\* call panics (overflow checks on) or continues with the wrapped sum.
get_escrow_ids(start, limit) ==
    IF U32Ge(start, ToU32(Len(escrow_ids)))
    THEN {[trap |-> FALSE, ids |-> <<>>]}
    ELSE LET sum == U32Add(start, limit)
         IN  IF sum.overflow
             THEN {[trap |-> TRUE, ids |-> <<>>],
                   [trap |-> FALSE, ids |-> get_escrow_ids_slice(start, sum.value)]}
             ELSE {[trap |-> FALSE, ids |-> get_escrow_ids_slice(start, sum.value)]}

U32Choices == {<<0, 0>>, <<0, 1>>, <<0, 2>>, <<0, 3>>, <<65535, 65534>>, <<65535, 65535>>}

\* A read of the index: the call and what it returned.
get_escrow_ids_invoke ==
    \E start \in U32Choices, limit \in U32Choices :
        \E o \in get_escrow_ids(start, limit) :
            /\ ~o.trap
            /\ last' = [Call("get_escrow_ids", 0, <<>>) EXCEPT
                           !.nested = <<start, limit, o.ids>>]
            /\ UNCHANGED <<storage, balances, ledger, accounting>>

\* ------------------------------------------------------------ fund_escrow
fund_escrow_fundable_Any(e) == TRUE

\* `if escrow.status != EscrowStatus::Pending { return Err(AlreadyFunded) }`
fund_escrow_fundable(e) == e.status = Pending

fund_escrow_call(id, signer) ==
    LET e == escrows[id] IN
    IF escrow_missing(e) THEN Err(World, "EscrowNotFound")
    ELSE IF ~fund_escrow_fundable(e) THEN Err(World, "AlreadyFunded")
    ELSE IF signer # e.buyer THEN Trap(World)
    ELSE LET t == Transfer(balances, e.buyer, ContractAddr, e.amount) IN
         IF ~t.ok THEN Trap(World)
         ELSE Done([World EXCEPT !.balances = t.bal, !.funded[id] = @ + e.amount],
                   << <<e.buyer, ContractAddr, e.amount>> >>)

fund_escrow ==
    \E id \in EscrowIdSet, signer \in Signers :
        LET out == fund_escrow_call(id, signer)
        IN  /\ out.result = "Ok"
            /\ balances' = out.w.balances
            /\ funded' = out.w.funded
            /\ last' = Call("fund_escrow", id, out.transfers)
            /\ UNCHANGED <<storage, ledger, released, refunded>>

\* --------------------------------------------------------- release_escrow
\* `if escrow.status != EscrowStatus::Pending { return Err(EscrowNotFunded) }`
release_escrow_releasable(e) == e.status = Pending

release_seller_amount_NoFee(amount, fee_amt) == amount

\* `let seller_amount = escrow.amount - fee_amount;`
release_seller_amount(amount, fee_amt) == amount - fee_amt

\* `hooks` are the invocations the token contract makes back into this
\* contract while it executes the first transfer (none for a plain token).
RECURSIVE release_escrow_call(_, _, _, _, _)
release_escrow_call(w, id, signer, feeOut, hooks) ==
    LET e == w.escrows[id] IN
    IF escrow_missing(e) THEN Err(w, "EscrowNotFound")
    ELSE IF ~release_escrow_releasable(e) THEN Err(w, "EscrowNotFunded")
    ELSE IF signer # e.buyer THEN Trap(w)
    ELSE IF fee_collector = None THEN Trap(w)
    ELSE IF feeOut.trap THEN Trap(w)
    ELSE
      LET fee_amt == feeOut.fee
          seller_amount == release_seller_amount(e.amount, fee_amt)
          t1 == Transfer(w.balances, ContractAddr, e.seller, seller_amount)
      IN
      IF ~t1.ok THEN Trap(w)
      ELSE
        LET w1 == [w EXCEPT !.balances = t1.bal,
                            !.released[id] = @ + seller_amount]
            nested == IF hooks = <<>> THEN Done(w1, <<>>)
                      ELSE release_escrow_call(w1, hooks[1].id, hooks[1].signer,
                                               hooks[1].feeOut, <<>>)
            \* a nested call that fails is rolled back alone
            w2 == IF nested.result = "Ok" THEN nested.w ELSE w1
            t2 == IF fee_amt > 0
                  THEN Transfer(w2.balances, ContractAddr, fee_collector, fee_amt)
                  ELSE [ok |-> TRUE, bal |-> w2.balances]
        IN
        IF ~t2.ok THEN Trap(Rollback(w, w2))
        ELSE [Done([w2 EXCEPT !.balances = t2.bal,
                              !.escrows[id] = [e EXCEPT !.status = Released],
                              !.released[id] = @ + (IF fee_amt > 0 THEN fee_amt ELSE 0)],
                   << <<ContractAddr, e.seller, seller_amount>> >>
                     \o (IF nested.result = "Ok" THEN nested.transfers ELSE <<>>)
                     \o (IF fee_amt > 0
                         THEN << <<ContractAddr, fee_collector, fee_amt>> >> ELSE <<>>))
              EXCEPT !.nested = IF hooks = <<>> THEN <<>> ELSE <<nested.result>>]

\* The outcomes of the fee computation for the escrow stored under id.
FeeOutcomes(id) ==
    IF escrows[id] = NoEscrow THEN {[trap |-> FALSE, fee |-> 0]}
    ELSE fee_amount(escrows[id].amount, get_fee_bps)

release_escrow ==
    \E id \in EscrowIdSet, signer \in Signers :
      \E feeOut \in FeeOutcomes(id) :
        LET out == release_escrow_call(World, id, signer, feeOut, <<>>)
        IN  /\ out.result = "Ok"
            /\ escrows' = out.w.escrows
            /\ balances' = out.w.balances
            /\ released' = out.w.released
            /\ last' = Call("release_escrow", id, out.transfers)
            /\ UNCHANGED <<escrow_ids, admin, fee_collector, fee_bps, refund_requests,
                           refund_count, escrow_refunds, refund_history, global_history,
                           ledger, funded, refunded>>

\* release_escrow with a token whose `transfer` calls back into the contract:
\* one nested release_escrow, made during the transfer to the seller.
release_escrow_reentrant ==
    \E id \in EscrowIdSet, signer \in Signers, hid \in EscrowIdSet, hsigner \in Signers :
      \E feeOut \in FeeOutcomes(id), hfeeOut \in FeeOutcomes(hid) :
        LET hook == [id |-> hid, signer |-> hsigner, feeOut |-> hfeeOut]
            out == release_escrow_call(World, id, signer, feeOut, <<hook>>)
        IN  /\ out.result = "Ok"
            /\ escrows' = out.w.escrows
            /\ balances' = out.w.balances
            /\ released' = out.w.released
            /\ last' = [Call("release_escrow", id, out.transfers)
                           EXCEPT !.nested = out.nested]
            /\ UNCHANGED <<escrow_ids, admin, fee_collector, fee_bps, refund_requests,
                           refund_count, escrow_refunds, refund_history, global_history,
                           ledger, funded, refunded>>

\* ---------------------------------------------------------- refund_escrow
refund_escrow_refundable_Any(e) == TRUE

\* the arms of `match escrow.status`: Pending and Disputed go on, any other
\* status returns Err(InvalidTransition)
refund_escrow_refundable(e) == e.status \in {Pending, Disputed}

refund_initiator_allowed_SellerInDispute(e, initiator) ==
    initiator = e.buyer \/ initiator = e.seller

\* who may initiate: buyer or seller from Pending, the buyer from Disputed
refund_initiator_allowed(e, initiator) ==
    IF e.status = Pending THEN initiator = e.buyer \/ initiator = e.seller
    ELSE IF e.status = Disputed THEN initiator = e.buyer
    ELSE TRUE

refund_escrow_amount_LessFee(e) == e.amount - (e.amount \div 40)

\* `token_client.transfer(&contract, &escrow.buyer, &escrow.amount)`
refund_escrow_amount(e) == e.amount

refund_escrow_call(id, signer, initiator) ==
    LET e == escrows[id] IN
    IF escrow_missing(e) THEN Err(World, "EscrowNotFound")
    ELSE IF ~refund_initiator_allowed(e, initiator) THEN Err(World, "Unauthorized")
    ELSE IF ~refund_escrow_refundable(e) THEN Err(World, "InvalidTransition")
    ELSE IF signer # initiator THEN Trap(World)
    ELSE LET amt == refund_escrow_amount(e)
             t == Transfer(balances, ContractAddr, e.buyer, amt)
         IN
         IF ~t.ok THEN Trap(World)
         ELSE Done([World EXCEPT !.balances = t.bal,
                                 !.escrows[id] = [e EXCEPT !.status = Refunded],
                                 !.refunded[id] = @ + amt],
                   << <<ContractAddr, e.buyer, amt>> >>)

refund_escrow ==
    \E id \in EscrowIdSet, signer \in Signers, initiator \in Signers :
        LET out == refund_escrow_call(id, signer, initiator)
        IN  /\ out.result = "Ok"
            /\ escrows' = out.w.escrows
            /\ balances' = out.w.balances
            /\ refunded' = out.w.refunded
            /\ last' = Call("refund_escrow", id, out.transfers)
            /\ UNCHANGED <<escrow_ids, admin, fee_collector, fee_bps, refund_requests,
                           refund_count, escrow_refunds, refund_history, global_history,
                           ledger, funded, released>>

\* ------------------------------------------------------ transition_status
transition_valid_SelfAllowed(self, next) ==
    self = next \/ can_transition_to(self, next)

\* `if !escrow.status.can_transition_to(&new_status)`
transition_valid(self, next) == can_transition_to(self, next)

transition_needs_buyer_Never(self, next) == FALSE

\* the `matches!` that guards `escrow.buyer.require_auth()`
transition_needs_buyer(self, next) ==
    <<self, next>> \in { <<Pending, Released>>, <<Pending, Disputed>>,
                         <<Pending, Refunded>>, <<Disputed, Refunded>> }

transition_status_result(id, signer, new_status) ==
    LET e == escrows[id] IN
    IF escrow_missing(e) THEN "EscrowNotFound"
    ELSE IF ~transition_valid(e.status, new_status) THEN "InvalidTransition"
    ELSE IF transition_needs_buyer(e.status, new_status) /\ signer # e.buyer
         THEN "Trap"
    ELSE "Ok"

transition_status ==
    \E id \in EscrowIdSet, signer \in Signers, new_status \in EscrowStatus :
        /\ transition_status_result(id, signer, new_status) = "Ok"
        /\ escrows' = [escrows EXCEPT ![id].status = new_status]
        /\ last' = Call("transition_status", id, <<>>)
        /\ UNCHANGED <<escrow_ids, admin, fee_collector, fee_bps, refund_requests,
                       refund_count, escrow_refunds, refund_history, global_history,
                       balances, ledger, accounting>>

\* -------------------------------------------------------- resolve_dispute
resolve_dispute_resolution_ok_Any(resolution) == TRUE

\* `matches!(resolution, EscrowStatus::Released | EscrowStatus::Refunded)`
resolve_dispute_resolution_ok(resolution) == resolution \in {Released, Refunded}

resolve_dispute_result(id, signer, resolution) ==
    LET e == escrows[id] IN
    IF escrow_missing(e) THEN "EscrowNotFound"
    ELSE IF signer # e.arbiter THEN "Trap"
    ELSE IF e.status # Disputed THEN "InvalidTransition"
    ELSE IF ~resolve_dispute_resolution_ok(resolution) THEN "InvalidTransition"
    ELSE "Ok"

resolve_dispute ==
    \E id \in EscrowIdSet, signer \in Signers, resolution \in EscrowStatus :
        /\ resolve_dispute_result(id, signer, resolution) = "Ok"
        /\ escrows' = [escrows EXCEPT ![id].status = resolution]
        /\ last' = Call("resolve_dispute", id, <<>>)
        /\ UNCHANGED <<escrow_ids, admin, fee_collector, fee_bps, refund_requests,
                       refund_count, escrow_refunds, refund_history, global_history,
                       balances, ledger, accounting>>

\* -------------------------------------------------------------- set_admin
set_admin_result(signer) ==
    IF admin # None /\ signer # admin THEN "Trap" ELSE "Ok"

set_admin ==
    \E signer \in Signers, a \in AdminChoices :
        /\ set_admin_result(signer) = "Ok"
        /\ admin' = a
        /\ last' = Call("set_admin", 0, <<>>)
        /\ UNCHANGED <<escrows, escrow_ids, fee_collector, fee_bps, refund_requests,
                       refund_count, escrow_refunds, refund_history, global_history,
                       balances, ledger, accounting>>

\* ----------------------------------------------------- set_fee_percentage
require_admin_auth_Anyone(signer) == TRUE

\* `admin.require_auth()` on the stored admin in set_fee_percentage
require_admin_auth(signer) == signer = admin

set_fee_percentage_result(signer, bps) ==
    IF admin = None THEN "NotAdmin"
    ELSE IF ~require_admin_auth(signer) THEN "Trap"
    ELSE IF bps > MAX_SET_FEE_BPS THEN "InvalidFeeConfig"
    ELSE "Ok"

set_fee_percentage ==
    \E signer \in Signers, bps \in SetFeeChoices :
        /\ set_fee_percentage_result(signer, bps) = "Ok"
        /\ fee_bps' = <<bps>>
        /\ last' = Call("set_fee_percentage", 0, <<>>)
        /\ UNCHANGED <<escrows, escrow_ids, admin, fee_collector, refund_requests,
                       refund_count, escrow_refunds, refund_history, global_history,
                       balances, ledger, accounting>>

\* -------------------------------------------------- submit_refund_request
refund_window_open_Strict(e) ==
    ~(e.refund_deadline > 0 /\ ledger >= e.refund_deadline)

\* `if escrow.refund_deadline > 0 && current_ledger > escrow.refund_deadline`
\* in submit_refund_request
refund_window_open(e) ==
    ~(e.refund_deadline > 0 /\ ledger > e.refund_deadline)

submit_refund_request_result(id, signer, refund_amount) ==
    LET e == escrows[id] IN
    IF escrow_missing(e) THEN "EscrowNotFound"
    ELSE IF e.status # Pending /\ e.status # Disputed THEN "InvalidTransition"
    ELSE IF refund_amount <= 0 THEN "InvalidEscrowAmount"
    ELSE IF refund_amount > e.amount THEN "RefundAmountExceedsEscrow"
    ELSE IF ~refund_window_open(e) THEN "RefundWindowExpired"
    ELSE IF refund_amount < e.amount /\ ~e.allow_partial_refund
         THEN "RefundAmountExceedsEscrow"
    ELSE IF signer # e.buyer THEN "Trap"
    ELSE "Ok"

Max(a, b) == IF a >= b THEN a ELSE b

next_refund_id_Reuse == IF refund_count = 0 THEN 1 ELSE refund_count

\* `RefundCount.unwrap_or(0) + 1` in submit_refund_request
next_refund_id == refund_count + 1

new_refund_request(id, refund_amount) ==
    LET e == escrows[id] IN
    [refund_id |-> next_refund_id,
     escrow_id |-> id,
     buyer |-> e.buyer,
     refund_amount |-> refund_amount,
     reason |-> "Other",
     description |-> "d",
     status |-> "Pending",
     created_at |-> ledger,
     updated_at |-> ledger,
     expires_at |-> Max(e.refund_deadline, ledger + REFUND_WINDOW),
     processed_by |-> None,
     processed_at |-> <<>>,
     rejection_reason |-> None]

push_escrow_refund_Everywhere(lists, id, refund_id) ==
    [i \in DOMAIN lists |-> Append(lists[i], refund_id)]

\* `EscrowRefunds(escrow_id)`: get, push_back(refund_id), set
push_escrow_refund(lists, id, refund_id) ==
    [lists EXCEPT ![id] = Append(@, refund_id)]

submit_refund_request ==
    \E id \in EscrowIdSet, signer \in Signers, refund_amount \in RefundAmountChoices :
        LET refund_id == next_refund_id
        IN  /\ submit_refund_request_result(id, signer, refund_amount) = "Ok"
            /\ refund_id \in RefundIdSet
            /\ refund_requests' = [refund_requests EXCEPT ![refund_id] =
                                      new_refund_request(id, refund_amount)]
            /\ refund_count' = refund_id
            /\ escrow_refunds' = push_escrow_refund(escrow_refunds, id, refund_id)
            /\ last' = Call("submit_refund_request", refund_id, <<>>)
            /\ UNCHANGED <<escrows, escrow_ids, admin, fee_collector, fee_bps,
                           refund_history, global_history, balances, ledger, accounting>>

\* ------------------------------------- approve / reject / cancel a request
approve_refund_request_approvable_Any(rr) == TRUE

\* `if refund_request.status != RefundStatus::Pending` in approve_refund_request
approve_refund_request_approvable(rr) == rr.status = "Pending"

approve_refund_request_result(refund_id, signer) ==
    IF admin = None THEN "NotAdmin"
    ELSE IF signer # admin THEN "Trap"
    ELSE IF refund_requests[refund_id] = NoRequest THEN "RefundRequestNotFound"
    ELSE IF ~approve_refund_request_approvable(refund_requests[refund_id])
         THEN "RefundAlreadyProcessed"
    ELSE "Ok"

approve_refund_request ==
    \E refund_id \in RefundIdSet, signer \in Signers :
        /\ approve_refund_request_result(refund_id, signer) = "Ok"
        /\ refund_requests' =
             [refund_requests EXCEPT ![refund_id] =
                 [@ EXCEPT !.status = "Approved", !.updated_at = ledger,
                           !.processed_by = admin, !.processed_at = <<ledger>>]]
        /\ last' = Call("approve_refund_request", refund_id, <<>>)
        /\ UNCHANGED <<escrows, escrow_ids, admin, fee_collector, fee_bps, refund_count,
                       escrow_refunds, refund_history, global_history, balances,
                       ledger, accounting>>

reject_refund_request_result(refund_id, signer) ==
    IF admin = None THEN "NotAdmin"
    ELSE IF signer # admin THEN "Trap"
    ELSE IF refund_requests[refund_id] = NoRequest THEN "RefundRequestNotFound"
    ELSE IF refund_requests[refund_id].status # "Pending" THEN "RefundAlreadyProcessed"
    ELSE "Ok"

reject_refund_request ==
    \E refund_id \in RefundIdSet, signer \in Signers :
        /\ reject_refund_request_result(refund_id, signer) = "Ok"
        /\ refund_requests' =
             [refund_requests EXCEPT ![refund_id] =
                 [@ EXCEPT !.status = "Rejected", !.updated_at = ledger,
                           !.processed_by = admin, !.processed_at = <<ledger>>,
                           !.rejection_reason = "r"]]
        /\ last' = Call("reject_refund_request", refund_id, <<>>)
        /\ UNCHANGED <<escrows, escrow_ids, admin, fee_collector, fee_bps, refund_count,
                       escrow_refunds, refund_history, global_history, balances,
                       ledger, accounting>>

cancel_refund_request_cancellable_Any(rr) == TRUE

\* `if refund_request.status != RefundStatus::Pending` in cancel_refund_request
cancel_refund_request_cancellable(rr) == rr.status = "Pending"

cancel_refund_request_authorized_Anyone(rr, signer) == TRUE

\* `refund_request.buyer.require_auth()` in cancel_refund_request
cancel_refund_request_authorized(rr, signer) == signer = rr.buyer

cancel_refund_request_result(refund_id, signer) ==
    IF refund_requests[refund_id] = NoRequest THEN "RefundRequestNotFound"
    ELSE IF ~cancel_refund_request_cancellable(refund_requests[refund_id])
         THEN "RefundAlreadyProcessed"
    ELSE IF ~cancel_refund_request_authorized(refund_requests[refund_id], signer)
         THEN "Trap"
    ELSE "Ok"

cancel_refund_request ==
    \E refund_id \in RefundIdSet, signer \in Signers :
        /\ cancel_refund_request_result(refund_id, signer) = "Ok"
        /\ refund_requests' =
             [refund_requests EXCEPT ![refund_id] =
                 [@ EXCEPT !.status = "Cancelled", !.updated_at = ledger]]
        /\ last' = Call("cancel_refund_request", refund_id, <<>>)
        /\ UNCHANGED <<escrows, escrow_ids, admin, fee_collector, fee_bps, refund_count,
                       escrow_refunds, refund_history, global_history, balances,
                       ledger, accounting>>

\* --------------------------------------------------------- process_refund
process_refund_processable_Any(rr) == TRUE

\* `if refund_request.status != RefundStatus::Approved` in process_refund
process_refund_processable(rr) == rr.status = "Approved"

process_refund_escrow_update_AlwaysReduce(e, refund_amount) ==
    [e EXCEPT !.amount = @ - refund_amount]

\* `if refund_amount < escrow.amount { escrow.amount -= refund_amount }
\*  else { escrow.status = Refunded }` in process_refund
process_refund_escrow_update(e, refund_amount) ==
    IF refund_amount < e.amount
    THEN [e EXCEPT !.amount = @ - refund_amount]
    ELSE [e EXCEPT !.status = Refunded]

process_refund_call(refund_id, signer) ==
    IF admin = None THEN Err(World, "NotAdmin")
    ELSE IF signer # admin THEN Trap(World)
    ELSE IF refund_requests[refund_id] = NoRequest THEN Err(World, "RefundRequestNotFound")
    ELSE IF ~process_refund_processable(refund_requests[refund_id])
         THEN Err(World, "RefundAlreadyProcessed")
    ELSE
      LET rr == refund_requests[refund_id]
          e == escrows[rr.escrow_id]
      IN
      IF e = NoEscrow THEN Err(World, "EscrowNotFound")
      ELSE
        LET t == Transfer(balances, ContractAddr, rr.buyer, rr.refund_amount) IN
        IF ~t.ok THEN Trap(World)
        ELSE
          LET e2 == process_refund_escrow_update(e, rr.refund_amount)
          IN  Done([World EXCEPT !.balances = t.bal,
                                 !.escrows[rr.escrow_id] = e2,
                                 !.refunded[rr.escrow_id] = @ + rr.refund_amount],
                   << <<ContractAddr, rr.buyer, rr.refund_amount>> >>)

history_entry_WrongId(refund_id, e2) ==
    LET rr == refund_requests[refund_id] IN
    [refund_id |-> 0,
     escrow_id |-> rr.escrow_id,
     amount |-> rr.refund_amount,
     is_full_refund |-> rr.refund_amount >= e2.amount,
     processed_at |-> ledger,
     processed_by |-> admin]

\* The history entry of a processed request; e2 is the escrow as already
\* updated by the call, which is what is_full_refund is computed from.
history_entry(refund_id, e2) ==
    LET rr == refund_requests[refund_id] IN
    [refund_id |-> refund_id,
     escrow_id |-> rr.escrow_id,
     amount |-> rr.refund_amount,
     is_full_refund |-> rr.refund_amount >= e2.amount,
     processed_at |-> ledger,
     processed_by |-> admin]

process_refund ==
    \E refund_id \in RefundIdSet, signer \in Signers :
        LET out == process_refund_call(refund_id, signer)
            eid == refund_requests[refund_id].escrow_id
        IN  /\ out.result = "Ok"
            /\ escrows' = out.w.escrows
            /\ balances' = out.w.balances
            /\ refunded' = out.w.refunded
            /\ refund_requests' = [refund_requests EXCEPT ![refund_id] =
                  [@ EXCEPT !.status = "Completed", !.updated_at = ledger]]
            /\ refund_history' = [refund_history EXCEPT ![eid] =
                  Append(@, history_entry(refund_id, out.w.escrows[eid]))]
            /\ global_history' =
                  Append(global_history, history_entry(refund_id, out.w.escrows[eid]))
            /\ last' = Call("process_refund", refund_id, out.transfers)
            /\ UNCHANGED <<escrow_ids, admin, fee_collector, fee_bps, refund_count,
                           escrow_refunds, ledger, funded, released>>

\* ------------------------------------------------------------ ledger time
advance_ledger ==
    /\ ledger < MaxLedger
    /\ ledger' = ledger + 1
    /\ last' = NoCall
    /\ UNCHANGED <<storage, balances, accounting>>

\* ------------------------------------------------------------------- Spec
Next ==
    \/ initialize
    \/ store_escrow
    \/ fund_escrow
    \/ release_escrow
    \/ refund_escrow
    \/ transition_status
    \/ resolve_dispute
    \/ set_admin
    \/ set_fee_percentage
    \/ submit_refund_request
    \/ approve_refund_request
    \/ reject_refund_request
    \/ cancel_refund_request
    \/ process_refund
    \/ advance_ledger

Spec == Init /\ [][Next]_vars

\* ---------------------------------------------- the contract and its token
\* The same contract deployed with a token that may call back into it.
NextReentrant ==
    \/ initialize
    \/ store_escrow
    \/ fund_escrow
    \/ release_escrow
    \/ release_escrow_reentrant
    \/ refund_escrow
    \/ transition_status
    \/ resolve_dispute
    \/ set_admin
    \/ set_fee_percentage
    \/ submit_refund_request
    \/ approve_refund_request
    \/ reject_refund_request
    \/ cancel_refund_request
    \/ process_refund
    \/ advance_ledger

SpecReentrant == Init /\ [][NextReentrant]_vars

\* ------------------------------------------------------ the fee arithmetic
\* The fee computation over its input space: the contract initialized with
\* any fee rate, holding one funded escrow of any amount, then released or
\* refunded.
FeeAmountChoices ==
    {1, 39, 40, 9999, 10000, 10000000, 109951162, 109951163, 219902326, 2000000000}
FeeBpsChoices == {0, 1, 250, 1000, 9999, 10000}

InitFee ==
    \E amount \in FeeAmountChoices, bps \in FeeBpsChoices :
        /\ escrows = [i \in EscrowIdRange(MaxEscrowId) |->
                         IF i = 1 THEN Escrow(amount, Pending, 0, FALSE) ELSE NoEscrow]
        /\ escrow_ids = <<1>>
        /\ admin = Admin
        /\ fee_collector = Collector
        /\ fee_bps = <<bps>>
        /\ refund_requests = [r \in RefundIdRange(MaxRefunds) |-> NoRequest]
        /\ refund_count = 0
        /\ escrow_refunds = [i \in EscrowIdRange(MaxEscrowId) |-> <<>>]
        /\ refund_history = [i \in EscrowIdRange(MaxEscrowId) |-> <<>>]
        /\ global_history = <<>>
        /\ balances = [h \in Holders |-> IF h = ContractAddr THEN amount ELSE 0]
        /\ ledger = InitLedger
        /\ funded = [i \in EscrowIdRange(MaxEscrowId) |-> IF i = 1 THEN amount ELSE 0]
        /\ released = [i \in EscrowIdRange(MaxEscrowId) |-> 0]
        /\ refunded = [i \in EscrowIdRange(MaxEscrowId) |-> 0]
        /\ last = Call("fund_escrow", 1, << <<Buyer, ContractAddr, amount>> >>)

NextFee ==
    \/ release_escrow
    \/ refund_escrow

SpecFee == InitFee /\ [][NextFee]_vars

\* ------------------------------------------------------ the refund workflow
\* The refund workflow in depth: the contract initialized, holding several
\* funded escrows that allow partial refunds, with room for several refund
\* requests; the ledger stays at its initial sequence number.
RefundWorkflowAmount == 10000000

InitRefunds ==
    /\ escrows = [i \in EscrowIdRange(MaxEscrowsDeep) |->
                     Escrow(RefundWorkflowAmount, Pending, 0, TRUE)]
    /\ escrow_ids = [i \in 1..MaxEscrowsDeep |-> i]
    /\ admin = Admin
    /\ fee_collector = Collector
    /\ fee_bps = <<250>>
    /\ refund_requests = [r \in RefundIdRange(MaxRefundsDeep) |-> NoRequest]
    /\ refund_count = 0
    /\ escrow_refunds = [i \in EscrowIdRange(MaxEscrowsDeep) |-> <<>>]
    /\ refund_history = [i \in EscrowIdRange(MaxEscrowsDeep) |-> <<>>]
    /\ global_history = <<>>
    /\ balances = [h \in Holders |->
                      IF h = ContractAddr THEN MaxEscrowsDeep * RefundWorkflowAmount ELSE 0]
    /\ ledger = InitLedger
    /\ funded = [i \in EscrowIdRange(MaxEscrowsDeep) |-> RefundWorkflowAmount]
    /\ released = [i \in EscrowIdRange(MaxEscrowsDeep) |-> 0]
    /\ refunded = [i \in EscrowIdRange(MaxEscrowsDeep) |-> 0]
    /\ last = Call("fund_escrow", MaxEscrowsDeep,
                   << <<Buyer, ContractAddr, RefundWorkflowAmount>> >>)

NextRefunds ==
    \/ submit_refund_request
    \/ approve_refund_request
    \/ reject_refund_request
    \/ cancel_refund_request
    \/ process_refund

SpecRefunds == InitRefunds /\ [][NextRefunds]_vars

\* ------------------------------------------------- the admin and the fee
\* The administration of the contract: a deployment that holds one funded
\* escrow with a pending refund request and is either not initialized or
\* was initialized with some admin and fee rate; then the operations that
\* configure the contract or need the admin.
InitAdminChoices == {None, Admin, Other}
InitAdminFeeChoices == {0, 1000, 10000}
InitAdminRefund == 4000000

InitAdmin ==
    \E a \in InitAdminChoices, bps \in InitAdminFeeChoices :
        /\ escrows = [i \in EscrowIdRange(MaxEscrowId) |->
                         IF i = 1 THEN Escrow(RefundWorkflowAmount, Pending, 0, TRUE)
                         ELSE NoEscrow]
        /\ escrow_ids = <<1>>
        /\ admin = a
        /\ fee_collector = IF a = None THEN None ELSE Collector
        /\ fee_bps = IF a = None THEN <<>> ELSE <<bps>>
        /\ refund_requests = [r \in RefundIdRange(MaxRefunds) |->
                IF r = 1
                THEN [refund_id |-> 1, escrow_id |-> 1, buyer |-> Buyer,
                      refund_amount |-> InitAdminRefund, reason |-> "Other",
                      description |-> "d", status |-> "Pending",
                      created_at |-> InitLedger, updated_at |-> InitLedger,
                      expires_at |-> InitLedger + REFUND_WINDOW,
                      processed_by |-> None, processed_at |-> <<>>,
                      rejection_reason |-> None]
                ELSE NoRequest]
        /\ refund_count = 1
        /\ escrow_refunds = [i \in EscrowIdRange(MaxEscrowId) |->
                                IF i = 1 THEN <<1>> ELSE <<>>]
        /\ refund_history = [i \in EscrowIdRange(MaxEscrowId) |-> <<>>]
        /\ global_history = <<>>
        /\ balances = [h \in Holders |->
                          IF h = ContractAddr THEN RefundWorkflowAmount ELSE 0]
        /\ ledger = InitLedger
        /\ funded = [i \in EscrowIdRange(MaxEscrowId) |->
                        IF i = 1 THEN RefundWorkflowAmount ELSE 0]
        /\ released = [i \in EscrowIdRange(MaxEscrowId) |-> 0]
        /\ refunded = [i \in EscrowIdRange(MaxEscrowId) |-> 0]
        /\ last = Call("submit_refund_request", 1, <<>>)

NextAdmin ==
    \/ initialize
    \/ set_admin
    \/ set_fee_percentage
    \/ approve_refund_request
    \/ reject_refund_request
    \/ process_refund
    \/ advance_ledger

SpecAdmin == InitAdmin /\ [][NextAdmin]_vars

\* ------------------------------------------------------------ the ID index
\* The index of escrow ids and its paginated read: escrows are stored under
\* several ids and the index is read with any start and limit.
InitIds ==
    /\ escrows = [i \in EscrowIdRange(MaxEscrowsDeep) |-> NoEscrow]
    /\ escrow_ids = <<>>
    /\ admin = None
    /\ fee_collector = None
    /\ fee_bps = <<>>
    /\ refund_requests = [r \in RefundIdRange(MaxRefunds) |-> NoRequest]
    /\ refund_count = 0
    /\ escrow_refunds = [i \in EscrowIdRange(MaxEscrowsDeep) |-> <<>>]
    /\ refund_history = [i \in EscrowIdRange(MaxEscrowsDeep) |-> <<>>]
    /\ global_history = <<>>
    /\ balances = [h \in Holders |-> IF h = Buyer THEN InitBuyerBalance ELSE 0]
    /\ ledger = InitLedger
    /\ funded = [i \in EscrowIdRange(MaxEscrowsDeep) |-> 0]
    /\ released = [i \in EscrowIdRange(MaxEscrowsDeep) |-> 0]
    /\ refunded = [i \in EscrowIdRange(MaxEscrowsDeep) |-> 0]
    /\ last = NoCall

NextIds ==
    \/ store_escrow
    \/ get_escrow_ids_invoke

SpecIds == InitIds /\ [][NextIds]_vars

\* -------------------------------------------------------- shared custody
\* Several escrows in the same token, whose deposits the contract holds in
\* one balance: the contract initialized, the escrows stored and not yet
\* funded, then funded, released and refunded in any order.
InitCustody ==
    /\ escrows = [i \in EscrowIdRange(MaxEscrowsDeep) |->
                     Escrow(RefundWorkflowAmount, Pending, 0, FALSE)]
    /\ escrow_ids = [i \in 1..MaxEscrowsDeep |-> i]
    /\ admin = Admin
    /\ fee_collector = Collector
    /\ fee_bps = <<250>>
    /\ refund_requests = [r \in RefundIdRange(MaxRefunds) |-> NoRequest]
    /\ refund_count = 0
    /\ escrow_refunds = [i \in EscrowIdRange(MaxEscrowsDeep) |-> <<>>]
    /\ refund_history = [i \in EscrowIdRange(MaxEscrowsDeep) |-> <<>>]
    /\ global_history = <<>>
    /\ balances = [h \in Holders |-> IF h = Buyer THEN InitBuyerBalance ELSE 0]
    /\ ledger = InitLedger
    /\ funded = [i \in EscrowIdRange(MaxEscrowsDeep) |-> 0]
    /\ released = [i \in EscrowIdRange(MaxEscrowsDeep) |-> 0]
    /\ refunded = [i \in EscrowIdRange(MaxEscrowsDeep) |-> 0]
    /\ last = Call("store_escrow", MaxEscrowsDeep, <<>>)

NextCustody ==
    \/ fund_escrow
    \/ release_escrow
    \/ refund_escrow
    \/ transition_status

SpecCustody == InitCustody /\ [][NextCustody]_vars

\* ------------------------------------------------------- several escrows
\* Every operation that is addressed to an escrow or to a refund request,
\* with several escrow ids in use: the contract initialized and empty, the
\* ledger at its initial sequence number.
InitEscrows ==
    /\ escrows = [i \in EscrowIdRange(MaxEscrowsDeep) |-> NoEscrow]
    /\ escrow_ids = <<>>
    /\ admin = Admin
    /\ fee_collector = Collector
    /\ fee_bps = <<250>>
    /\ refund_requests = [r \in RefundIdRange(MaxRefunds) |-> NoRequest]
    /\ refund_count = 0
    /\ escrow_refunds = [i \in EscrowIdRange(MaxEscrowsDeep) |-> <<>>]
    /\ refund_history = [i \in EscrowIdRange(MaxEscrowsDeep) |-> <<>>]
    /\ global_history = <<>>
    /\ balances = [h \in Holders |-> IF h = Buyer THEN InitBuyerBalance ELSE 0]
    /\ ledger = InitLedger
    /\ funded = [i \in EscrowIdRange(MaxEscrowsDeep) |-> 0]
    /\ released = [i \in EscrowIdRange(MaxEscrowsDeep) |-> 0]
    /\ refunded = [i \in EscrowIdRange(MaxEscrowsDeep) |-> 0]
    /\ last = Call("initialize", 0, <<>>)

NextEscrows ==
    \/ store_escrow
    \/ fund_escrow
    \/ release_escrow
    \/ refund_escrow
    \/ transition_status
    \/ resolve_dispute
    \/ submit_refund_request
    \/ approve_refund_request
    \/ reject_refund_request
    \/ cancel_refund_request
    \/ process_refund

SpecEscrows == InitEscrows /\ [][NextEscrows]_vars

(***************************************************************************)
(* Properties.                                                             *)
(***************************************************************************)

\* C1: every change of the status of a stored escrow, whatever entry point
\* makes it, follows one of the five legal edges Pending->Released,
\* Pending->Disputed, Pending->Refunded, Disputed->Released,
\* Disputed->Refunded.
C1_StatusFollowsLegalEdges ==
    [][\A id \in EscrowIdSet :
          (/\ escrows[id] # NoEscrow
           /\ escrows'[id] # NoEscrow
           /\ escrows'[id].status # escrows[id].status)
          => can_transition_to(escrows[id].status, escrows'[id].status)]_vars

\* C2: for every stored escrow the value paid out on the release side
\* (seller share plus platform fee) is between 0 and the escrow's amount.
C2_ReleasedWithinAmount ==
    \A id \in EscrowIdSet :
        escrows[id] # NoEscrow =>
            /\ 0 <= released[id]
            /\ released[id] <= escrows[id].amount

\* C3: on an escrow whose status is Released or Refunded, release_escrow
\* returns EscrowNotFunded and refund_escrow returns InvalidTransition,
\* whoever signs and however often, and neither changes the stored state or
\* moves funds.
C3_TerminalReleaseRefundRejected ==
    \A id \in EscrowIdSet, signer \in Signers, initiator \in Signers :
        (escrows[id] # NoEscrow /\ escrows[id].status \in {Released, Refunded}) =>
            /\ \A feeOut \in FeeOutcomes(id) :
                  release_escrow_call(World, id, signer, feeOut, <<>>)
                      = Err(World, "EscrowNotFunded")
            /\ refund_escrow_call(id, signer, initiator)
                  = Err(World, "InvalidTransition")

C3_Witness ==
    /\ last.op = "release_escrow"
    /\ escrows[last.id].status = Released
    /\ release_escrow_call(World, last.id, Buyer, [trap |-> FALSE, fee |-> 0], <<>>).result
           = "EscrowNotFunded"
    /\ refund_escrow_call(last.id, Buyer, Buyer).result = "InvalidTransition"

C6_FeeIsFloorWithoutOverflow ==
    \A id \in EscrowIdSet :
        escrows[id] # NoEscrow =>
            \A o \in fee_amount(escrows[id].amount, get_fee_bps) :
                /\ ~o.trap
                /\ o.fee = ProductL(escrows[id].amount, get_fee_bps)[1]
                /\ 0 <= o.fee
                /\ o.fee <= escrows[id].amount
                /\ o.fee + release_seller_amount(escrows[id].amount, o.fee)
                       = escrows[id].amount

\* C7: a release_escrow that returns Ok on a Pending escrow moves
\* amount - fee from the contract to the seller and fee to the fee
\* collector, makes the fee transfer exactly when fee > 0, and leaves the
\* record unchanged but for status = Released; with fee_bps = 250 and
\* amount = 10_000_000 the seller gets 9_750_000 and the collector 250_000.
C7_ReleasePaysSellerAndCollector ==
    [][\A id \in EscrowIdSet :
          (last'.op = "release_escrow" /\ last'.id = id) =>
            LET e == escrows[id]
                fee_paid == balances'[Collector] - balances[Collector]
                to_seller == << <<ContractAddr, e.seller, e.amount - fee_paid>> >>
                to_collector == << <<ContractAddr, Collector, fee_paid>> >>
            IN  /\ e.status = Pending
                /\ fee_paid \in {o.fee : o \in fee_amount(e.amount, get_fee_bps)}
                /\ fee_paid >= 0
                /\ balances'[e.seller] = balances[e.seller] + (e.amount - fee_paid)
                /\ balances'[ContractAddr] = balances[ContractAddr] - e.amount
                /\ balances'[e.buyer] = balances[e.buyer]
                /\ last'.transfers = IF fee_paid > 0 THEN to_seller \o to_collector
                                                     ELSE to_seller
                /\ escrows'[id] = [e EXCEPT !.status = Released]
                /\ (get_fee_bps = 250 /\ e.amount = 10000000) =>
                      /\ balances'[e.seller] = balances[e.seller] + 9750000
                      /\ fee_paid = 250000]_vars

C7_Witness ==
    /\ last.op = "release_escrow"
    /\ escrows[last.id].status = Released
    /\ last.transfers = << <<ContractAddr, Seller, 9750000>>,
                           <<ContractAddr, Collector, 250000>> >>
    /\ balances[Seller] = 9750000
    /\ balances[Collector] = 250000

\* C8: refund_escrow returns Unauthorized, with the escrow and the balances
\* unchanged, when the initiator is neither buyer nor seller of a Pending
\* escrow or is not the buyer of a Disputed escrow; a buyer or seller on
\* Pending and the buyer on Disputed are not rejected as Unauthorized.
C8_RefundInitiatorAuthorization ==
    \A id \in EscrowIdSet, signer \in Signers, initiator \in Signers :
        LET e == escrows[id]
            out == refund_escrow_call(id, signer, initiator)
            allowed == \/ e.status = Pending /\ initiator \in {e.buyer, e.seller}
                       \/ e.status = Disputed /\ initiator = e.buyer
        IN  (e # NoEscrow /\ e.status \in {Pending, Disputed}) =>
                IF allowed THEN out.result # "Unauthorized"
                           ELSE out = Err(World, "Unauthorized")

C8_Witness ==
    \E id \in EscrowIdSet :
        /\ escrows[id] # NoEscrow
        /\ escrows[id].status = Disputed
        /\ refund_escrow_call(id, Seller, Seller) = Err(World, "Unauthorized")
        /\ refund_escrow_call(id, Buyer, Buyer).result = "Ok"

\* C9: a refund_escrow that returns Ok moves exactly the escrow's stored
\* amount from the contract to the buyer, nothing to the seller or the fee
\* collector, and leaves the record unchanged but for status = Refunded.
C9_RefundPaysBuyerInFull ==
    [][\A id \in EscrowIdSet :
          (last'.op = "refund_escrow" /\ last'.id = id) =>
            LET e == escrows[id]
            IN  /\ e.status \in {Pending, Disputed}
                /\ balances'[e.buyer] = balances[e.buyer] + e.amount
                /\ balances'[ContractAddr] = balances[ContractAddr] - e.amount
                /\ balances'[e.seller] = balances[e.seller]
                /\ balances'[Collector] = balances[Collector]
                /\ last'.transfers = << <<ContractAddr, e.buyer, e.amount>> >>
                /\ escrows'[id] = [e EXCEPT !.status = Refunded]]_vars

C9_Witness ==
    /\ last.op = "refund_escrow"
    /\ escrows[last.id].status = Refunded
    /\ fee_bps = <<250>>
    /\ last.transfers = << <<ContractAddr, Buyer, escrows[last.id].amount>> >>
    /\ balances[Buyer] = InitBuyerBalance
    /\ balances[Seller] = 0
    /\ balances[Collector] = 0

\* C10: fund_escrow on an escrow whose amount has already been moved into
\* custody, or whose status is not Pending, returns AlreadyFunded and moves
\* no funds; no escrow is funded with more than its amount.
C10_SecondFundRejected ==
    \A id \in EscrowIdSet :
        escrows[id] # NoEscrow =>
            /\ funded[id] <= escrows[id].amount
            /\ (funded[id] > 0 \/ escrows[id].status # Pending) =>
                  fund_escrow_call(id, escrows[id].buyer) = Err(World, "AlreadyFunded")

C12_IllegalTransitionRejected ==
    \A id \in EscrowIdSet, signer \in Signers, new_status \in EscrowStatus :
        LET e == escrows[id]
            legal == <<e.status, new_status>> \in
                        { <<Pending, Released>>, <<Pending, Disputed>>,
                          <<Pending, Refunded>>, <<Disputed, Released>>,
                          <<Disputed, Refunded>> }
        IN  (e # NoEscrow /\ ~legal) =>
                transition_status_result(id, signer, new_status) = "InvalidTransition"

C12_Witness ==
    \E id \in EscrowIdSet :
        /\ escrows[id] # NoEscrow
        /\ escrows[id].status = Refunded
        /\ last.op = "refund_escrow"
        /\ transition_status_result(id, Other, Pending) = "InvalidTransition"
        /\ transition_status_result(id, Other, Refunded) = "InvalidTransition"

\* C13: transition_status applies Pending->Released, Pending->Disputed,
\* Pending->Refunded and Disputed->Refunded only when the buyer signed: with
\* any other signer the call fails; Disputed->Released is applied whoever
\* signed.
C13_TransitionAuthorization ==
    \A id \in EscrowIdSet, signer \in Signers, new_status \in EscrowStatus :
        LET e == escrows[id]
            out == transition_status_result(id, signer, new_status)
            buyer_edge == <<e.status, new_status>> \in
                             { <<Pending, Released>>, <<Pending, Disputed>>,
                               <<Pending, Refunded>>, <<Disputed, Refunded>> }
        IN  e # NoEscrow =>
              /\ buyer_edge => (out = "Ok" <=> signer = e.buyer)
              /\ (buyer_edge /\ signer # e.buyer) => out = "Trap"
              /\ (e.status = Disputed /\ new_status = Released) => out = "Ok"

C13_Witness ==
    \E id \in EscrowIdSet :
        /\ escrows[id] # NoEscrow
        /\ escrows[id].status = Disputed
        /\ last.op = "transition_status"
        /\ transition_status_result(id, Seller, Refunded) = "Trap"
        /\ transition_status_result(id, Buyer, Refunded) = "Ok"
        /\ transition_status_result(id, Other, Released) = "Ok"

\* C14: a Disputed escrow becomes Released only by a call its arbiter
\* signed: no call signed by anyone else that would take a Disputed escrow
\* to Released returns Ok.
C14_OnlyArbiterReleasesDisputed ==
    \A id \in EscrowIdSet, signer \in Signers :
        (/\ escrows[id] # NoEscrow
         /\ escrows[id].status = Disputed
         /\ signer # escrows[id].arbiter) =>
            /\ transition_status_result(id, signer, Released) # "Ok"
            /\ resolve_dispute_result(id, signer, Released) # "Ok"

\* C15: resolve_dispute returns Ok only when the arbiter signed, the escrow
\* is Disputed and the resolution is Released or Refunded; signed by the
\* arbiter, it returns InvalidTransition for any other status of the escrow
\* and for any other resolution.
C15_ResolveDisputeGuards ==
    \A id \in EscrowIdSet, signer \in Signers, resolution \in EscrowStatus :
        LET e == escrows[id]
            out == resolve_dispute_result(id, signer, resolution)
            good == e.status = Disputed /\ resolution \in {Released, Refunded}
        IN  e # NoEscrow =>
              /\ out = "Ok" <=> (signer = e.arbiter /\ good)
              /\ (signer = e.arbiter /\ ~good) => out = "InvalidTransition"

C15_Witness ==
    \E id \in EscrowIdSet :
        /\ escrows[id] # NoEscrow
        /\ escrows[id].status = Disputed
        /\ resolve_dispute_result(id, Arbiter, Pending) = "InvalidTransition"
        /\ resolve_dispute_result(id, Arbiter, Disputed) = "InvalidTransition"
        /\ resolve_dispute_result(id, Arbiter, Refunded) = "Ok"
        /\ resolve_dispute_result(id, Buyer, Refunded) = "Trap"

C19_RefundRequestLifecycle ==
    [][\A refund_id \in RefundIdSet :
          LET a == refund_requests[refund_id]
              b == refund_requests'[refund_id]
          IN  a # NoRequest =>
                /\ b # NoRequest
                /\ b.status # a.status =>
                      <<a.status, b.status>> \in
                          { <<"Pending", "Approved">>, <<"Pending", "Rejected">>,
                            <<"Pending", "Cancelled">>, <<"Approved", "Completed">> }
                /\ a.status \in {"Completed", "Rejected", "Cancelled"} => b = a]_vars

C19_Witness ==
    \E refund_id \in RefundIdSet :
        /\ refund_requests[refund_id] # NoRequest
        /\ refund_requests[refund_id].status = "Completed"
        /\ last.op = "process_refund"
        /\ last.id = refund_id

\* C20: approve_refund_request and reject_refund_request return Ok only
\* when the stored admin signed and the request exists with status Pending;
\* signed by the admin they return RefundRequestNotFound for an unknown
\* refund_id and RefundAlreadyProcessed for a request in any other status.
C20_ApproveRejectGuards ==
    \A refund_id \in RefundIdSet, signer \in Signers :
        LET rr == refund_requests[refund_id]
            pending == rr # NoRequest /\ rr.status = "Pending"
            expected == IF rr = NoRequest THEN "RefundRequestNotFound"
                        ELSE IF rr.status # "Pending" THEN "RefundAlreadyProcessed"
                        ELSE "Ok"
        IN  \A out \in { approve_refund_request_result(refund_id, signer),
                         reject_refund_request_result(refund_id, signer) } :
              /\ out = "Ok" => (admin # None /\ signer = admin /\ pending)
              /\ (admin # None /\ signer = admin) => out = expected

C20_Witness ==
    \E refund_id \in RefundIdSet :
        /\ refund_requests[refund_id] # NoRequest
        /\ refund_requests[refund_id].status = "Approved"
        /\ last.op = "approve_refund_request"
        /\ approve_refund_request_result(refund_id, admin) = "RefundAlreadyProcessed"
        /\ reject_refund_request_result(refund_id, admin) = "RefundAlreadyProcessed"
        /\ approve_refund_request_result(refund_id, Other) = "Trap"

\* C21: process_refund pays only a request whose status is Approved and marks
\* it Completed, so a request is paid out at most once: signed by the admin
\* on a Pending, Rejected, Cancelled or already Completed request it returns
\* RefundAlreadyProcessed, and a call that does not succeed moves no funds.
C21_PaidCount(refund_id) ==
    Cardinality({i \in DOMAIN global_history : global_history[i].refund_id = refund_id})

C21_ProcessGuards ==
    \A refund_id \in RefundIdSet, signer \in Signers :
        LET rr == refund_requests[refund_id]
            out == process_refund_call(refund_id, signer)
        IN  /\ out.result = "Ok" => rr.status = "Approved"
            /\ (signer = admin /\ rr # NoRequest /\ rr.status # "Approved")
                  => out = Err(World, "RefundAlreadyProcessed")
            /\ out.result # "Ok" => (out.w = World /\ out.transfers = <<>>)
            /\ C21_PaidCount(refund_id) <= 1
            /\ C21_PaidCount(refund_id) = 1 <=> rr.status = "Completed"

C21_ProcessOnlyApprovedOnce ==
    [][/\ C21_ProcessGuards
       /\ C21_ProcessGuards'
       /\ \A refund_id \in RefundIdSet :
             (last'.op = "process_refund" /\ last'.id = refund_id)
               => /\ refund_requests[refund_id].status = "Approved"
                  /\ refund_requests'[refund_id].status = "Completed"
                  /\ last'.transfers =
                        << <<ContractAddr, refund_requests[refund_id].buyer,
                             refund_requests[refund_id].refund_amount>> >>
       /\ last'.op # "process_refund" =>
             \A refund_id \in RefundIdSet :
                 refund_requests'[refund_id].status = "Completed"
                   => refund_requests[refund_id].status = "Completed"]_vars

C21_Witness ==
    \E refund_id \in RefundIdSet :
        /\ last.op = "process_refund" /\ last.id = refund_id
        /\ refund_requests[refund_id].status = "Completed"
        /\ process_refund_call(refund_id, admin) = Err(World, "RefundAlreadyProcessed")
        /\ \E other \in RefundIdSet :
              /\ refund_requests[other].status = "Pending"
              /\ process_refund_call(other, admin) = Err(World, "RefundAlreadyProcessed")

\* C22: a successful process_refund with refund_amount < escrow.amount reduces
\* the escrow's amount by refund_amount and leaves its status unchanged; with
\* refund_amount >= escrow.amount it sets the status to Refunded and leaves
\* the amount as it was. Nothing else of the escrow changes.
C22_ProcessRefundEscrowUpdate ==
    [][\A refund_id \in RefundIdSet :
         (last'.op = "process_refund" /\ last'.id = refund_id)
           => LET rr == refund_requests[refund_id]
                  e == escrows[rr.escrow_id]
                  e2 == escrows'[rr.escrow_id]
              IN  /\ rr.refund_amount < e.amount =>
                        /\ e2.amount = e.amount - rr.refund_amount
                        /\ e2.status = e.status
                        /\ e2 = [e EXCEPT !.amount = e2.amount]
                  /\ rr.refund_amount >= e.amount =>
                        /\ e2.status = Refunded
                        /\ e2.amount = e.amount
                        /\ e2 = [e EXCEPT !.status = Refunded]
                  /\ \A other \in EscrowIdSet \ {rr.escrow_id} :
                        escrows'[other] = escrows[other]]_vars

C22_Witness ==
    \E a \in EscrowIdSet, b \in EscrowIdSet :
        /\ last.op = "process_refund"
        /\ escrows[a].status = Pending /\ escrows[a].amount = 6000000
        /\ escrows[b].status = Refunded /\ escrows[b].amount = 10000000

\* C23: refund history is append-only and complete: a successful
\* process_refund appends one and the same entry, carrying the request's
\* refund_id, escrow_id and amount, to the history of the request's escrow
\* and to the global history; no other operation changes either list; in
\* every reachable state the global history has exactly one entry for each
\* Completed request and none for any other, and the history of each escrow
\* is the global entries of that escrow in the same order.
C23_EntriesOf(refund_id) ==
    {i \in DOMAIN global_history : global_history[i].refund_id = refund_id}

C23_OfEscrow(id) ==
    LET of_id(h) == h.escrow_id = id IN SelectSeq(global_history, of_id)

C23_HistoryComplete ==
    /\ \A refund_id \in RefundIdSet :
          Cardinality(C23_EntriesOf(refund_id)) =
              IF refund_requests[refund_id].status = "Completed" THEN 1 ELSE 0
    /\ \A i \in DOMAIN global_history : global_history[i].refund_id \in RefundIdSet
    /\ \A id \in EscrowIdSet : refund_history[id] = C23_OfEscrow(id)

C23_HistoryAppendOnly ==
    [][/\ C23_HistoryComplete
       /\ C23_HistoryComplete'
       /\ \A refund_id \in RefundIdSet :
             (last'.op = "process_refund" /\ last'.id = refund_id)
               => LET rr == refund_requests[refund_id]
                      h == global_history'[Len(global_history')]
                  IN  /\ global_history' = Append(global_history, h)
                      /\ refund_history' =
                            [refund_history EXCEPT ![rr.escrow_id] = Append(@, h)]
                      /\ h.refund_id = refund_id
                      /\ h.escrow_id = rr.escrow_id
                      /\ h.amount = rr.refund_amount
       /\ last'.op # "process_refund" =>
             UNCHANGED <<refund_history, global_history>>]_vars

C23_Witness ==
    /\ last.op = "process_refund"
    /\ Len(global_history) = 3
    /\ global_history[1].escrow_id # global_history[2].escrow_id
    /\ global_history[3].escrow_id = global_history[1].escrow_id
    /\ Len(refund_history[global_history[1].escrow_id]) = 2

\* C24: submit_refund_request creates a request only if the escrow exists
\* (else EscrowNotFound), its status is Pending or Disputed (else
\* InvalidTransition), refund_amount > 0, refund_amount <= escrow.amount (else
\* RefundAmountExceedsEscrow), refund_amount = escrow.amount or partial
\* refunds are allowed, the ledger is not past a non-zero refund_deadline
\* (else RefundWindowExpired; a deadline of 0 never expires, a submission at
\* the deadline is accepted), and the buyer authorizes; a request appears
\* and the refund counter advances only through an accepted submission.
C24_SubmitAmounts == RefundAmountChoices \cup {-1, 6000000}

C24_SubmitGuards ==
    \A id \in EscrowIdSet, signer \in Signers, refund_amount \in C24_SubmitAmounts :
        LET e == escrows[id]
            r == submit_refund_request_result(id, signer, refund_amount)
            open == e.status \in {Pending, Disputed}
            expired == e.refund_deadline # 0 /\ ledger > e.refund_deadline
        IN  /\ e = NoEscrow => r = "EscrowNotFound"
            /\ (e # NoEscrow /\ ~open) => r = "InvalidTransition"
            /\ (e # NoEscrow /\ open) =>
                  /\ refund_amount <= 0 => r \notin {"Ok", "Trap"}
                  /\ (refund_amount > 0 /\ refund_amount > e.amount)
                        => r = "RefundAmountExceedsEscrow"
                  /\ (refund_amount > 0 /\ refund_amount <= e.amount /\ expired)
                        => r = "RefundWindowExpired"
                  /\ (e.refund_deadline = 0 \/ ledger <= e.refund_deadline)
                        => r # "RefundWindowExpired"
                  /\ (refund_amount > 0 /\ refund_amount < e.amount
                        /\ ~e.allow_partial_refund) => r \notin {"Ok", "Trap"}
                  /\ r = "Ok" <=>
                        /\ refund_amount > 0
                        /\ refund_amount <= e.amount
                        /\ refund_amount = e.amount \/ e.allow_partial_refund
                        /\ ~expired
                        /\ signer = e.buyer

C24_SubmitRefundRequestGuards ==
    [][/\ C24_SubmitGuards
       /\ C24_SubmitGuards'
       /\ (refund_requests' # refund_requests /\ last'.op # "submit_refund_request")
             => /\ refund_count' = refund_count
                /\ \A r \in RefundIdSet :
                      refund_requests[r] = NoRequest <=> refund_requests'[r] = NoRequest
       /\ refund_count' # refund_count => last'.op = "submit_refund_request"
       /\ last'.op = "submit_refund_request" =>
             \E id \in EscrowIdSet :
                 /\ refund_requests[last'.id] = NoRequest
                 /\ refund_requests'[last'.id].escrow_id = id
                 /\ submit_refund_request_result(id, escrows[id].buyer,
                         refund_requests'[last'.id].refund_amount) = "Ok"]_vars

C24_Witness ==
    \E id \in EscrowIdSet, r \in RefundIdSet :
        /\ escrows[id] # NoEscrow
        /\ refund_requests[r] # NoRequest
        /\ escrows[id].status = Pending
        /\ escrows[id].refund_deadline = 1
        /\ refund_requests[r].escrow_id = id
        /\ refund_requests[r].created_at = escrows[id].refund_deadline
        /\ ledger = 2
        /\ submit_refund_request_result(id, Buyer, 10000000) = "RefundWindowExpired"

\* C25: refund ids are assigned monotonically and uniquely: the k-th
\* successful submit_refund_request returns refund_id k, starting at 1; the
\* stored RefundCount equals the number of requests ever created; the
\* request stored under an id carries that id, so no two requests share one;
\* a new request starts Pending with its buyer equal to the escrow's buyer
\* and replaces no earlier request.
C25_Created == {r \in RefundIdSet : refund_requests[r] # NoRequest}

C25_IdsDense ==
    /\ refund_count = Cardinality(C25_Created)
    /\ C25_Created = {r \in RefundIdSet : r <= refund_count}
    /\ \A r \in C25_Created : refund_requests[r].refund_id = r

C25_RefundIdsMonotonic ==
    [][/\ C25_IdsDense
       /\ C25_IdsDense'
       /\ refund_count' >= refund_count
       /\ last'.op = "submit_refund_request" =>
             /\ last'.id = refund_count + 1
             /\ refund_count' = last'.id
             /\ refund_requests[last'.id] = NoRequest
             /\ refund_requests'[last'.id].refund_id = last'.id
             /\ refund_requests'[last'.id].status = "Pending"
             /\ refund_requests'[last'.id].buyer =
                   escrows[refund_requests'[last'.id].escrow_id].buyer
             /\ \A r \in RefundIdSet \ {last'.id} :
                   refund_requests'[r] = refund_requests[r]
       /\ last'.op # "submit_refund_request" => refund_count' = refund_count]_vars

C25_Witness ==
    /\ last.op = "submit_refund_request"
    /\ last.id = MaxRefundsDeep
    /\ refund_count = MaxRefundsDeep
    /\ \A r \in 1..MaxRefundsDeep : refund_requests[r].refund_id = r
    /\ refund_requests[1].status # "Pending"

\* C26: cancel_refund_request succeeds only with the authorization of the
\* request's buyer and only while the request is Pending, and then sets it
\* to Cancelled and changes nothing else but its updated_at; on an Approved,
\* Rejected, Completed or Cancelled request it returns RefundAlreadyProcessed
\* whoever signs, so an approved request never becomes Cancelled.
C26_CancelGuards ==
    \A refund_id \in RefundIdSet, signer \in Signers :
        LET rr == refund_requests[refund_id]
            r == cancel_refund_request_result(refund_id, signer)
        IN  rr # NoRequest =>
              /\ r = "Ok" <=> (rr.status = "Pending" /\ signer = rr.buyer)
              /\ rr.status \in {"Approved", "Rejected", "Completed", "Cancelled"}
                    => r = "RefundAlreadyProcessed"

C26_CancelOnlyPendingByBuyer ==
    [][/\ C26_CancelGuards
       /\ C26_CancelGuards'
       /\ \A refund_id \in RefundIdSet :
             /\ (last'.op = "cancel_refund_request" /\ last'.id = refund_id)
                   => /\ refund_requests[refund_id].status = "Pending"
                      /\ refund_requests' =
                            [refund_requests EXCEPT ![refund_id] =
                                [@ EXCEPT !.status = "Cancelled", !.updated_at = ledger]]
                      /\ UNCHANGED <<escrows, balances, refund_count, refund_history,
                                     global_history>>
             /\ (refund_requests[refund_id].status # "Cancelled"
                   /\ refund_requests'[refund_id].status = "Cancelled")
                   => /\ last'.op = "cancel_refund_request" /\ last'.id = refund_id
                      /\ refund_requests[refund_id].status = "Pending"]_vars

C26_Witness ==
    \E refund_id \in RefundIdSet, approved \in RefundIdSet :
        /\ last.op = "cancel_refund_request" /\ last.id = refund_id
        /\ refund_requests[refund_id].status = "Cancelled"
        /\ refund_requests[approved].status = "Approved"
        /\ cancel_refund_request_result(approved, refund_requests[approved].buyer)
              = "RefundAlreadyProcessed"

\* C27: the admin identity is immutable once stored: whatever operation runs,
\* later initialize calls with another admin argument included, get_admin
\* keeps returning the identity that was stored first.
C27_AdminImmutable ==
    [][admin # None => admin' = admin]_vars

\* C28: the privileged operations take effect only with the authorization
\* of the admin stored at the time of the call: set_fee_percentage,
\* approve_refund_request, reject_refund_request, process_refund and, once an
\* admin is stored, initialize fail for every other signer; while no admin
\* is stored the first four return NotAdmin; a request that is approved or
\* rejected records the stored admin as its processor.
C28_FeeArguments == {0, 250, 1000}

C28_PrivilegedGuards ==
    \A signer \in Signers, refund_id \in RefundIdSet, bps \in C28_FeeArguments :
        /\ admin = None =>
              /\ set_fee_percentage_result(signer, bps) = "NotAdmin"
              /\ approve_refund_request_result(refund_id, signer) = "NotAdmin"
              /\ reject_refund_request_result(refund_id, signer) = "NotAdmin"
              /\ process_refund_call(refund_id, signer) = Err(World, "NotAdmin")
        /\ (admin # None /\ signer # admin) =>
              /\ set_fee_percentage_result(signer, bps) = "Trap"
              /\ approve_refund_request_result(refund_id, signer) = "Trap"
              /\ reject_refund_request_result(refund_id, signer) = "Trap"
              /\ process_refund_call(refund_id, signer) = Trap(World)
              /\ initialize_result(signer, bps) = "Trap"

C28_PrivilegedNeedsAdmin ==
    [][/\ C28_PrivilegedGuards
       /\ C28_PrivilegedGuards'
       /\ last'.op \in {"set_fee_percentage", "approve_refund_request",
                         "reject_refund_request", "process_refund"}
             => (admin # None /\ admin' = admin)
       /\ last'.op \in {"approve_refund_request", "reject_refund_request"}
             => refund_requests'[last'.id].processed_by = admin
       /\ last'.op = "process_refund"
             => global_history'[Len(global_history')].processed_by = admin]_vars

C28_Witness ==
    \E refund_id \in RefundIdSet :
        /\ admin = Admin
        /\ refund_requests[refund_id].status = "Approved"
        /\ refund_requests[refund_id].processed_by = Other
        /\ process_refund_call(refund_id, Other) = Trap(World)
        /\ process_refund_call(refund_id, Admin).result = "Ok"
        /\ last.op = "set_fee_percentage"

\* C29: the stored fee rate stays within bounds: initialize accepts fee_bps
\* in 0..10000 and rejects larger values with InvalidFeeConfig,
\* set_fee_percentage rejects fee_bps > 1000 with InvalidFeeConfig, only
\* these two operations change the stored rate, and get_fee_bps is at most
\* 10000 in every reachable state, 0 while no rate is stored.
C29_FeeArguments == {0, 250, 1000, 1001, 10000, 10001}

C29_FeeGuards ==
    /\ get_fee_bps >= 0 /\ get_fee_bps <= 10000
    /\ fee_bps = <<>> => get_fee_bps = 0
    /\ \A signer \in Signers, bps \in C29_FeeArguments :
          /\ bps > 10000 => initialize_result(signer, bps) = "InvalidFeeConfig"
          /\ (bps <= 10000 /\ (admin = None \/ signer = admin))
                => initialize_result(signer, bps) = "Ok"
          /\ (bps > 1000 /\ admin # None /\ signer = admin)
                => set_fee_percentage_result(signer, bps) = "InvalidFeeConfig"
          /\ bps > 1000 => set_fee_percentage_result(signer, bps) # "Ok"
          /\ (bps <= 1000 /\ admin # None /\ signer = admin)
                => set_fee_percentage_result(signer, bps) = "Ok"

C29_FeeWithinBounds ==
    [][/\ C29_FeeGuards
       /\ C29_FeeGuards'
       /\ last'.op = "initialize" =>
             (fee_bps' # <<>> /\ get_fee_bps' <= 10000 /\ fee_collector' # None)
       /\ last'.op = "set_fee_percentage" =>
             (fee_bps' # <<>> /\ get_fee_bps' <= 1000 /\ UNCHANGED <<fee_collector, admin>>)
       /\ last'.op \notin {"initialize", "set_fee_percentage"} =>
             UNCHANGED <<fee_bps, fee_collector>>]_vars

C29_Witness ==
    /\ last.op = "initialize"
    /\ get_fee_bps = 250
    /\ admin # None
    /\ initialize_result(admin, 10000) = "Ok"
    /\ initialize_result(admin, 10001) = "InvalidFeeConfig"
    /\ set_fee_percentage_result(admin, 1001) = "InvalidFeeConfig"

\* C30: every stored escrow has a strictly positive amount in every reachable
\* state: store_escrow rejects amount <= 0 with InvalidEscrowAmount, the
\* record and the id index change together and only on an accepted
\* store_escrow, and the only other change of a stored amount, the partial
\* refund of process_refund, leaves it above zero.
C30_StoreArguments == EscrowChoices \cup {Escrow(-1, Pending, 0, FALSE)}

C30_AmountsPositive ==
    /\ \A id \in EscrowIdSet : escrows[id] # NoEscrow => escrows[id].amount > 0
    /\ \A e \in C30_StoreArguments :
          /\ e.amount <= 0 => store_escrow_result(e) = "InvalidEscrowAmount"
          /\ e.amount > 0 => store_escrow_result(e) = "Ok"

C30_StoredAmountPositive ==
    [][/\ C30_AmountsPositive
       /\ C30_AmountsPositive'
       /\ escrow_ids' # escrow_ids => last'.op = "store_escrow"
       /\ \A id \in EscrowIdSet :
             /\ (escrows[id] = NoEscrow /\ escrows'[id] # NoEscrow)
                   => last'.op = "store_escrow"
             /\ (escrows[id] # NoEscrow /\ last'.op # "store_escrow")
                   => /\ escrows'[id] # NoEscrow
                      /\ escrows'[id].amount <= escrows[id].amount
                      /\ escrows'[id].amount # escrows[id].amount
                            => last'.op = "process_refund"]_vars

C30_Witness ==
    \E id \in EscrowIdSet :
        /\ last.op = "process_refund"
        /\ escrows[id] # NoEscrow
        /\ escrows[id].amount = 6000000
        /\ funded[id] = 10000000
        /\ store_escrow_result(Escrow(0, Pending, 0, FALSE)) = "InvalidEscrowAmount"

\* C31: get_escrow_ids(start, limit) never fails and returns exactly the
\* elements of the ID index at positions start .. min(start + limit, total)
\* - 1 in creation order, the empty list when start >= total or limit = 0,
\* for every start and limit of the 32-bit unsigned range, those whose sum
\* exceeds the range included.
C31_Expected(start, limit) ==
    LET total == Len(escrow_ids) IN
    IF U32Ge(start, ToU32(total)) THEN <<>>
    ELSE LET rest == total - start[2]
             count == IF U32Ge(limit, ToU32(rest)) THEN rest ELSE limit[2]
         IN  SubSeq(escrow_ids, start[2] + 1, start[2] + count)

C31_PaginationExact ==
    \A start \in U32Choices, limit \in U32Choices :
        \A o \in get_escrow_ids(start, limit) :
            /\ ~o.trap
            /\ o.ids = C31_Expected(start, limit)

\* C32: every successful state-changing operation (escrow creation, fund,
\* release, refund, status transition, dispute resolution, fee change, refund
\* submit, approve, reject, process, cancel) emits exactly one event, which
\* carries the escrow or refund id the operation was addressed to.
C32_StateChangingOps ==
    {"store_escrow", "fund_escrow", "release_escrow", "refund_escrow",
     "transition_status", "resolve_dispute", "set_fee_percentage",
     "submit_refund_request", "approve_refund_request", "reject_refund_request",
     "process_refund", "cancel_refund_request"}

C32_EveryOperationEmitsOneEvent ==
    last.op \in C32_StateChangingOps =>
        /\ Len(last.events) = 1
        /\ last.op # "set_fee_percentage" => last.events[1].id = <<last.id>>

\* C33: every operation that takes an escrow id (try_get_escrow, fund_escrow,
\* release_escrow, refund_escrow, transition_status, resolve_dispute,
\* submit_refund_request) returns EscrowNotFound for an id that was never
\* stored, whoever authorizes the call and whatever its other arguments,
\* and leaves the state as it was.
C33_UnknownIdRejected ==
    \A id \in EscrowIdSet :
        escrows[id] = NoEscrow =>
            /\ try_get_escrow(id).result = "EscrowNotFound"
            /\ \A signer \in Signers :
                  /\ fund_escrow_call(id, signer) = Err(World, "EscrowNotFound")
                  /\ \A feeOut \in FeeOutcomes(id) :
                        release_escrow_call(World, id, signer, feeOut, <<>>)
                            = Err(World, "EscrowNotFound")
                  /\ \A initiator \in Signers :
                        refund_escrow_call(id, signer, initiator)
                            = Err(World, "EscrowNotFound")
                  /\ \A new_status \in EscrowStatus :
                        /\ transition_status_result(id, signer, new_status)
                              = "EscrowNotFound"
                        /\ resolve_dispute_result(id, signer, new_status)
                              = "EscrowNotFound"
                  /\ \A refund_amount \in RefundAmountChoices :
                        submit_refund_request_result(id, signer, refund_amount)
                            = "EscrowNotFound"

C33_Witness ==
    \E known \in EscrowIdSet, unknown \in EscrowIdSet :
        /\ last.op = "store_escrow" /\ last.id = known
        /\ try_get_escrow(known).result = "Ok"
        /\ fund_escrow_call(known, Buyer).result = "Ok"
        /\ escrows[unknown] = NoEscrow
        /\ fund_escrow_call(unknown, Buyer).result = "EscrowNotFound"
        /\ resolve_dispute_result(unknown, Arbiter, Released) = "EscrowNotFound"

\* C34: the status reflects where the funds went, however it was reached:
\* when release_escrow, refund_escrow, transition_status, resolve_dispute or
\* process_refund makes an escrow Released, the escrow's amount has been paid
\* out on the release side (seller share plus platform fee); when one of
\* them makes it Refunded, the escrow's amount has been returned to the
\* buyer.
C34_StatusPaths ==
    {"release_escrow", "refund_escrow", "transition_status", "resolve_dispute",
     "process_refund"}

C34_StatusReflectsFunds ==
    [][\A id \in EscrowIdSet :
          (/\ escrows[id] # NoEscrow
           /\ last'.op \in C34_StatusPaths
           /\ escrows'[id].status # escrows[id].status)
          => /\ escrows'[id].status = Released
                   => released'[id] >= escrows'[id].amount
             /\ escrows'[id].status = Refunded
                   => refunded'[id] >= escrows'[id].amount]_vars

\* C35: for every escrow the total value transferred out of custody on its
\* behalf, to the seller, the fee collector and the buyer together, never
\* exceeds the amount the escrow was created with, however many refund
\* requests on it are approved and processed.
C35_PaidOutWithinCreatedAmount ==
    \A id \in EscrowIdSet :
        released[id] + refunded[id] <= RefundWorkflowAmount

\* C36: process_refund on an approved request whose escrow is Released or
\* Refunded moves no funds and leaves the escrow's status as it is; a
\* Released escrow never becomes Refunded through process_refund.
C36_ProcessRefundSparesTerminalEscrow ==
    \A refund_id \in RefundIdSet, signer \in Signers :
        LET rr == refund_requests[refund_id]
            out == process_refund_call(refund_id, signer)
        IN  (/\ rr # NoRequest
             /\ rr.status = "Approved"
             /\ escrows[rr.escrow_id] # NoEscrow
             /\ escrows[rr.escrow_id].status \in {Released, Refunded})
            => /\ out.transfers = <<>>
               /\ out.w.balances = balances
               /\ out.w.escrows[rr.escrow_id].status = escrows[rr.escrow_id].status

\* C37: funds leave custody for an escrow only if that escrow was funded:
\* per escrow, the value paid out by release_escrow, refund_escrow and
\* process_refund never exceeds the value paid in by fund_escrow, so with
\* several escrows sharing one token nothing is paid for one escrow out of
\* the deposit of another.
C37_PaidOutWithinPaidIn ==
    \A id \in EscrowIdSet :
        released[id] + refunded[id] <= funded[id]

\* C38: an escrow record, once created, is never deleted or reset: a
\* store_escrow with an id that is already stored leaves the existing record
\* as it is, and the ID index lists every stored escrow id exactly once.
C38_IndexedOnce ==
    \A id \in EscrowIdSet :
        Cardinality({i \in DOMAIN escrow_ids : escrow_ids[i] = id})
            = IF escrows[id] = NoEscrow THEN 0 ELSE 1

C38_StoredRecordNotReplaced ==
    [][/\ C38_IndexedOnce'
       /\ \A id \in EscrowIdSet :
             escrows[id] # NoEscrow =>
                 /\ escrows'[id] # NoEscrow
                 /\ last'.op = "store_escrow" => escrows'[id] = escrows[id]]_vars

\* C39: the is_full_refund flag of a refund history entry is true exactly
\* when the processed refund covered the whole amount the escrow held at
\* processing time, the case in which the escrow became Refunded, and false
\* for every partial refund that only reduced the escrow's amount.
C39_FullRefundFlagExact ==
    [][\A refund_id \in RefundIdSet :
          (last'.op = "process_refund" /\ last'.id = refund_id)
            => LET rr == refund_requests[refund_id]
                   e == escrows[rr.escrow_id]
                   h == global_history'[Len(global_history')]
               IN  /\ h.is_full_refund <=> rr.refund_amount >= e.amount
                   /\ h.is_full_refund <=>
                         escrows'[rr.escrow_id].amount = e.amount]_vars

\* C40: escrows are independent: an operation addressed to one escrow id
\* (store, fund, release, refund, transition, resolve) or to a refund request
\* of one escrow (submit, approve, reject, process, cancel) leaves the
\* record, the refund-request list and the refund history of every other
\* escrow id unchanged.
C40_EscrowOps ==
    {"store_escrow", "fund_escrow", "release_escrow", "refund_escrow",
     "transition_status", "resolve_dispute"}

C40_RefundOps ==
    {"submit_refund_request", "approve_refund_request", "reject_refund_request",
     "process_refund", "cancel_refund_request"}

C40_Untouched(id) ==
    /\ escrows'[id] = escrows[id]
    /\ escrow_refunds'[id] = escrow_refunds[id]
    /\ refund_history'[id] = refund_history[id]

C40_EscrowsIndependent ==
    [][/\ last'.op \in C40_EscrowOps =>
             \A other \in EscrowIdSet \ {last'.id} : C40_Untouched(other)
       /\ last'.op \in C40_RefundOps =>
             /\ \A other \in EscrowIdSet \ {refund_requests'[last'.id].escrow_id} :
                   C40_Untouched(other)
             /\ \A r \in RefundIdSet \ {last'.id} :
                   refund_requests'[r] = refund_requests[r]]_vars

C40_Witness ==
    \E id \in EscrowIdSet, other \in EscrowIdSet, r \in RefundIdSet :
        /\ id # other
        /\ last.op = "process_refund" /\ last.id = r
        /\ refund_requests[r].escrow_id = id
        /\ escrows[id].status = Refunded
        /\ refund_history[id] # <<>>
        /\ escrow_refunds[id] = <<r>>
        /\ escrows[other] # NoEscrow
        /\ escrows[other].status = Disputed
        /\ escrow_refunds[other] = <<>>
        /\ refund_history[other] = <<>>

=============================================================================
